---- MODULE Spec2Model ----
(***************************************************************************)
(* A model of openelex/base/publish.py: ResultFileFinder (glob patterns    *)
(* over the bakery directory), BasePublisher and GitHubPublisher (per-file *)
(* create-or-update against a GitHub repository, then one branch merge).   *)
(*                                                                         *)
(* Python strings are modelled as sequences of one-character strings, so   *)
(* that splitext, basename, join, endswith and glob matching are computed  *)
(* character by character, as the library computes them.                   *)
(***************************************************************************)
EXTENDS Integers, Sequences, FiniteSets, TLC

VARIABLES
    \* get_path called on its own
    gpFilename, gpResult, gpDone,
    \* get_sha called on its own
    gsTree, gsPath, gsResult, gsDone,
    \* ResultFileFinder.get_filenames called on its own
    gfListing, gfState, gfDatefilter, gfRaw, gfResult, gfDone,
    \* BasePublisher.publish
    bpArgs, bpRaised,
    \* GitHubPublisher.publish
    pc, listing, args, localContent, remote, filenames, idx,
    path, content, sha, handleOpen, log, raised

gpVars == <<gpFilename, gpResult, gpDone>>
gsVars == <<gsTree, gsPath, gsResult, gsDone>>
gfVars == <<gfListing, gfState, gfDatefilter, gfRaw, gfResult, gfDone>>
bpVars == <<bpArgs, bpRaised>>
pubVars == <<pc, listing, args, localContent, remote, filenames, idx,
             path, content, sha, handleOpen, log, raised>>
vars == <<gpVars, gsVars, gfVars, bpVars, pubVars>>
\* the components a publish call of GitHubPublisher leaves alone
notPubVars == <<gpVars, gsVars, gfVars, bpVars>>

----------------------------------------------------------------------------
(* Bounds of the model *)

\* longest filename handed to get_path on its own
MaxNameLen == 6
\* longest remote tree handed to get_sha on its own
MaxTreeLen == 3
\* most files in the search directory of get_filenames on its own
MaxListing == 2
\* most files in the search directory of a publish call
MaxPubListing == 2
\* most entries of the remote tree at the start of a publish call
MaxPubTree == 1

----------------------------------------------------------------------------
(* Python values *)

\* None: the value of an absent datefilter, and get_sha's not-found result
\* (no string of characters equals it)
None == <<"None">>

\* the empty string
EmptyStr == <<>>

RAW_PREFIX == <<"r", "a", "w">>
CLEAN_PREFIX == <<"c", "l", "e", "a", "n">>

\* bool(x) of a string or None, as `if datefilter:` and `if sha:` take it
Truthy(x) == x # None /\ x # EmptyStr

\* len(s)
StrLen(s) == Len(s)

\* s.rfind(c), 1-based: the last index of c in s, 0 when c is not in s
RFind(s, c) ==
    LET hits == {i \in 1..Len(s) : s[i] = c}
    IN IF hits = {} THEN 0 ELSE CHOOSE i \in hits : \A j \in hits : j <= i

\* s.endswith(suffix)
EndsWith(s, suffix) ==
    /\ Len(suffix) <= Len(s)
    /\ SubSeq(s, Len(s) - Len(suffix) + 1, Len(s)) = suffix

\* s.startswith(prefix)
StartsWith(s, prefix) ==
    /\ Len(prefix) <= Len(s)
    /\ SubSeq(s, 1, Len(prefix)) = prefix

\* os.path.splitext(p)[0]: the extension is cut at the last dot of the last
\* path segment, unless that segment has only dots before it
SplitextBase(p) ==
    LET sepIndex == RFind(p, "/")
        dotIndex == RFind(p, ".")
    IN IF /\ dotIndex > sepIndex
          /\ \E k \in (sepIndex + 1)..(dotIndex - 1) : p[k] # "."
       THEN SubSeq(p, 1, dotIndex - 1)
       ELSE p

\* os.path.basename(p): what follows the last slash
Basename(p) == SubSeq(p, RFind(p, "/") + 1, Len(p))

\* posixpath.join(a, b) (and os.path.join on a POSIX host)
PathJoin(a, b) ==
    IF StartsWith(b, <<"/">>) THEN b
    ELSE IF a = EmptyStr \/ EndsWith(a, <<"/">>) THEN a \o b
    ELSE a \o <<"/">> \o b

\* sep.join(bits)
RECURSIVE StrJoin(_, _)
StrJoin(sep, bits) ==
    IF bits = <<>> THEN EmptyStr
    ELSE IF Len(bits) = 1 THEN bits[1]
    ELSE bits[1] \o sep \o StrJoin(sep, Tail(bits))

\* every string over an alphabet of at most n characters
StringsUpTo(alphabet, n) == UNION {[1..k -> alphabet] : k \in 0..n}

----------------------------------------------------------------------------
(* GitHubPublisher.get_path *)

\* faulty variant of get_path: the test made on the filename, extension
\* included
get_path_NoSplitext(filename) ==
    LET without_dir == Basename(filename)
    IN IF EndsWith(filename, <<"r", "a", "w">>)
       THEN PathJoin(RAW_PREFIX, without_dir)
       ELSE PathJoin(CLEAN_PREFIX, without_dir)

get_path(filename) ==
    LET base == SplitextBase(filename)
        without_dir == Basename(filename)
    IN IF EndsWith(base, <<"r", "a", "w">>)
       THEN PathJoin(RAW_PREFIX, without_dir)
       ELSE PathJoin(CLEAN_PREFIX, without_dir)

PathAlphabet == {"r", "a", "w", ".", "/"}

GetPathInit ==
    /\ gpFilename \in StringsUpTo(PathAlphabet, MaxNameLen)
    /\ gpResult = EmptyStr
    /\ gpDone = FALSE

GetPathCall ==
    /\ ~gpDone
    /\ gpResult' = get_path(gpFilename)
    /\ gpDone' = TRUE
    /\ UNCHANGED gpFilename
    /\ UNCHANGED <<gsVars, gfVars, bpVars, pubVars>>

----------------------------------------------------------------------------
(* GitHubPublisher.get_sha *)

\* an entry of repo.tree(branch).recurse().tree
Hash(p, s) == [path |-> p, sha |-> s]

\* faulty variant of get_sha: the sha of the last entry at the path
RECURSIVE get_sha_LastMatch(_, _)
get_sha_LastMatch(tree, p) ==
    IF tree = <<>> THEN None
    ELSE IF tree[Len(tree)].path = p THEN tree[Len(tree)].sha
    ELSE get_sha_LastMatch(SubSeq(tree, 1, Len(tree) - 1), p)

\* the scan of get_sha over the tree that repo.tree(branch).recurse() returned:
\* the sha of the first entry whose path is p, None when the loop runs out
RECURSIVE get_sha(_, _)
get_sha(tree, p) ==
    IF tree = <<>> THEN None
    ELSE IF Head(tree).path = p THEN Head(tree).sha
    ELSE get_sha(Tail(tree), p)

\* remote paths: one is a proper prefix of another
ShaPaths == {<<"c", "/", "a">>, <<"c", "/", "a", "b">>, <<"r", "/", "a">>}
\* git object ids (never empty)
Shas == {<<"s", "1">>, <<"s", "2">>, <<"s", "3">>}

TreeEntries == {Hash(p, s) : p \in ShaPaths, s \in Shas}

GetShaInit ==
    /\ gsTree \in StringsUpTo(TreeEntries, MaxTreeLen)
    /\ gsPath \in ShaPaths
    /\ gsResult = None
    /\ gsDone = FALSE

GetShaCall ==
    /\ ~gsDone
    /\ gsResult' = get_sha(gsTree, gsPath)
    /\ gsDone' = TRUE
    /\ UNCHANGED <<gsTree, gsPath>>
    /\ UNCHANGED <<gpVars, gfVars, bpVars, pubVars>>

----------------------------------------------------------------------------
(* ResultFileFinder *)

\* fnmatch.fnmatchcase(name, pat) for patterns of literals, * and ?
RECURSIVE Fnmatch(_, _)
Fnmatch(name, pat) ==
    IF pat = <<>> THEN name = <<>>
    ELSE IF Head(pat) = "*"
         THEN \E k \in 0..Len(name) :
                 Fnmatch(SubSeq(name, k + 1, Len(name)), Tail(pat))
    ELSE IF name = <<>> THEN FALSE
    ELSE IF Head(pat) = "?" THEN Fnmatch(Tail(name), Tail(pat))
    ELSE Head(name) = Head(pat) /\ Fnmatch(Tail(name), Tail(pat))

\* s.rstrip("/")
RECURSIVE RStripSlash(_)
RStripSlash(s) ==
    IF s # <<>> /\ s[Len(s)] = "/"
    THEN RStripSlash(SubSeq(s, 1, Len(s) - 1))
    ELSE s

\* os.path.dirname(p)
Dirname(p) ==
    LET head == SubSeq(p, 1, RFind(p, "/"))
    IN IF head # <<>> /\ RStripSlash(head) = <<>> THEN head
       ELSE RStripSlash(head)

\* the one directory of the model's file system that holds files
SearchDir == <<"d">>

\* glob.glob(pathname) for a pathname whose last segment holds a wildcard,
\* over a file system whose only directory is SearchDir, listed in the order
\* of os.listdir: names that start with a dot match only a pattern that does
Glob(pathname, names) ==
    LET dirname == Dirname(pathname)
        pattern == Basename(pathname)
        visible(n) == StartsWith(pattern, <<".">>) \/ ~StartsWith(n, <<".">>)
        hit(n) == visible(n) /\ Fnmatch(n, pattern)
        found == IF dirname = SearchDir THEN SelectSeq(names, hit) ELSE <<>>
    IN [i \in 1..Len(found) |-> PathJoin(dirname, found[i])]

\* faulty variant of build_glob: the raw segment left out
build_glob_NoRaw(state, search_dir, ext, datefilter, raw) ==
    LET datefilter_bit ==
            IF Truthy(datefilter)
            THEN IF StrLen(datefilter) < 6 THEN datefilter \o <<"*">>
                 ELSE datefilter
            ELSE <<"*">>
        filename_bits == <<datefilter_bit, state, <<"*">>>>
        filename_glob == StrJoin(<<"_", "_">>, filename_bits) \o ext
    IN PathJoin(search_dir, filename_glob)

build_glob(state, search_dir, ext, datefilter, raw) ==
    LET datefilter_bit ==
            IF Truthy(datefilter)
            THEN IF StrLen(datefilter) < 6 THEN datefilter \o <<"*">>
                 ELSE datefilter
            ELSE <<"*">>
        bits == <<datefilter_bit, state, <<"*">>>>
        filename_bits == IF raw THEN Append(bits, RAW_PREFIX) ELSE bits
        filename_glob == StrJoin(<<"_", "_">>, filename_bits) \o ext
    IN PathJoin(search_dir, filename_glob)

ExtCsv == <<".", "c", "s", "v">>
ExtJson == <<".", "j", "s", "o", "n">>
ExtTxt == <<".", "t", "x", "t">>

\* the extensions get_filenames searches, in its order
extensions == <<ExtCsv, ExtJson>>

\* get_filenames over a search directory whose files are `names`
get_filenames(state, datefilter, raw, search_dir, names) ==
    LET found(ext) ==
            Glob(build_glob(state, search_dir, ext, datefilter, raw), names)
    IN found(extensions[1]) \o found(extensions[2])

\* the parts of a result file's name: <date>__<state>__<rest><ext>
ResultFile(date, state, rest, ext) ==
    [date |-> date, state |-> state, rest |-> rest, ext |-> ext]

FileName(r) ==
    r.date \o <<"_", "_">> \o r.state \o <<"_", "_">> \o r.rest \o r.ext

Date20140101 == <<"2", "0", "1", "4", "0", "1", "0", "1">>
Date20140215 == <<"2", "0", "1", "4", "0", "2", "1", "5">>
StateNY == <<"n", "y">>
StateNJ == <<"n", "j">>
RestClean == <<"p">>
RestRaw == <<"p", "_", "_", "r", "a", "w">>

\* the files a search directory may hold: cleaned and raw results of two
\* election dates in both searched formats, another state's file, a file of
\* a format that is not searched, and a file named raw with no raw marker
FileUniverse ==
    {ResultFile(d, StateNY, r, e) :
        d \in {Date20140101, Date20140215},
        r \in {RestClean, RestRaw},
        e \in {ExtCsv, ExtJson}}
    \cup {ResultFile(Date20140101, StateNJ, RestClean, ExtCsv),
          ResultFile(Date20140101, StateNY, RestClean, ExtTxt),
          ResultFile(Date20140101, StateNY, RAW_PREFIX, ExtCsv)}

\* the directory listings of at most n distinct files, in any order
Listings(files, n) ==
    {l \in StringsUpTo({FileName(r) : r \in files}, n) :
        \A i, j \in 1..Len(l) : l[i] = l[j] => i = j}

\* the datefilters: None, each prefix of one date and a year with no files
Datefilters ==
    {None}
    \cup {SubSeq(Date20140101, 1, k) : k \in 1..8}
    \cup {<<"2", "0", "1", "5">>}

GetFilenamesInit ==
    /\ gfListing \in Listings(FileUniverse, MaxListing)
    /\ gfState = StateNY
    /\ gfDatefilter \in Datefilters
    /\ gfRaw \in BOOLEAN
    /\ gfResult = <<>>
    /\ gfDone = FALSE

GetFilenamesCall ==
    /\ ~gfDone
    /\ gfResult' =
           get_filenames(gfState, gfDatefilter, gfRaw, SearchDir, gfListing)
    /\ gfDone' = TRUE
    /\ UNCHANGED <<gfListing, gfState, gfDatefilter, gfRaw>>
    /\ UNCHANGED <<gpVars, gsVars, bpVars, pubVars>>

----------------------------------------------------------------------------
(* BasePublisher.publish *)

\* the builtins the body of BasePublisher.publish could name
NotImplemented == "NotImplemented"
NotImplementedError == "NotImplementedError"

\* what `raise f(msg)` raises: calling the constant NotImplemented, which is
\* no class and has no __call__, raises TypeError before any raise statement
\* runs; calling the exception class NotImplementedError builds the exception
RaiseCalling(f) ==
    IF f = NotImplementedError THEN "NotImplementedError" ELSE "TypeError"

\* the name the code calls in its raise statement
BasePublishRaises == RaiseCalling(NotImplemented)

BasePublishInit ==
    /\ bpArgs \in [state : {StateNY, StateNJ},
                   datefilter : Datefilters,
                   raw : BOOLEAN]
    /\ bpRaised = "none"

BasePublish ==
    /\ bpRaised = "none"
    /\ bpRaised' = BasePublishRaises
    /\ UNCHANGED bpArgs
    /\ UNCHANGED <<gpVars, gsVars, gfVars, pubVars>>

----------------------------------------------------------------------------
(* GitHubPublisher.publish and publish_file *)

\* ResultFileFinder.results_dir(): the directory publish searches
results_dir == SearchDir

\* the files of the bakery directory in a publish call
PubFiles ==
    {ResultFile(Date20140101, StateNY, RestClean, ExtCsv),
     ResultFile(Date20140101, StateNY, RestRaw, ExtCsv),
     ResultFile(Date20140215, StateNY, RestClean, ExtJson)}

PubNames == {FileName(r) : r \in PubFiles}

Content1 == <<"c", "1">>
Content2 == <<"c", "2">>

\* what reading each file of the directory returns
ContentMaps ==
    {[n \in PubNames |-> Content1],
     [n \in PubNames |-> IF EndsWith(n, ExtCsv) THEN Content1 ELSE Content2]}

\* the arguments of a publish call
PubArgs ==
    [state : {StateNY}, datefilter : {None, Date20140101}, raw : BOOLEAN]

\* the entries the remote tree may hold before a publish call
PubTreeEntries ==
    {Hash(get_path(PathJoin(SearchDir, n)), <<"s", "1">>) : n \in PubNames}
    \cup {Hash(<<"R", "E", "A", "D", "M", "E">>, <<"s", "2">>)}

PubTrees == StringsUpTo(PubTreeEntries, MaxPubTree)

\* the sha GitHub gives the blob of a content
BlobSha(c) == <<"h">> \o Tail(c)

MsgUpdate == <<"U", "p", "d", "a", "t", "e", " ", "f", "i", "l", "e", " ">>
MsgCreate == <<"C", "r", "e", "a", "t", "e", " ", "f", "i", "l", "e", " ">>
BranchMaster == <<"m", "a", "s", "t", "e", "r">>
BranchGhPages == <<"g", "h", "-", "p", "a", "g", "e", "s">>

\* one call the publisher made on a collaborator (github3, blinker, the local
\* file), with its arguments, and whether it returned (ok) or raised
Event(op, ok, file) ==
    [op |-> op, ok |-> ok, file |-> file, path |-> EmptyStr, msg |-> EmptyStr,
     content |-> EmptyStr, sha |-> None, tree |-> <<>>,
     base |-> EmptyStr, head |-> EmptyStr]

\* the exception a failed call raises
Error(op, file) == [op |-> op, file |-> file]
NoError == Error("none", EmptyStr)

\* faulty variant of Propagate: a finally clause that still merges
Propagate_MergeAnyway(pcNow) == IF pcNow = "merge" THEN "raised" ELSE "merge"

\* faulty variant of Propagate: a finally clause in publish_file that still
\* sends post_publish
Propagate_PostAnyway(pcNow) ==
    IF pcNow \in {"read", "get_sha", "write"} THEN "post_publish" ELSE "raised"

\* where control goes when a call raises at step pcNow: publish and
\* publish_file catch nothing, the exception leaves publish
Propagate(pcNow) == "raised"

\* faulty variant of AfterFile: the merge inside the loop
AfterFile_MergeInLoop(i, n) == "merge"

\* the for loop of publish after file i of n (i = 0: before the first):
\* the next file's publish_file, or the merge after the last
AfterFile(i, n) == IF i < n THEN "pre_publish" ELSE "merge"

\* faulty variant of WithExit: the file left open when the block is left
WithExit_Leak(open) == open

\* the with statement's exit, on return and on exception: the file is closed
WithExit(open) == FALSE

\* faulty variant of WriteCall: always a create
WriteCall_AlwaysCreate(file, p, c, s) ==
    [Event("create_file", TRUE, file) EXCEPT
        !.path = p, !.msg = MsgCreate \o p, !.content = c]

\* the remote write publish_file issues for a looked-up sha
WriteCall(file, p, c, s) ==
    IF Truthy(s)
    THEN [Event("update_file", TRUE, file) EXCEPT
             !.path = p, !.msg = MsgUpdate \o p, !.content = c, !.sha = s]
    ELSE [Event("create_file", TRUE, file) EXCEPT
             !.path = p, !.msg = MsgCreate \o p, !.content = c]

\* the tree after GitHub applied a write: an update replaces the blob of the
\* first entry at the path with that sha, a create adds an entry
RECURSIVE UpdateTree(_, _, _, _)
UpdateTree(tree, p, s, new) ==
    IF tree = <<>> THEN <<>>
    ELSE IF Head(tree).path = p /\ Head(tree).sha = s
         THEN <<Hash(p, new)>> \o Tail(tree)
    ELSE <<Head(tree)>> \o UpdateTree(Tail(tree), p, s, new)

ApplyWrite(tree, ev) ==
    IF ev.op = "update_file"
    THEN UpdateTree(tree, ev.path, ev.sha, BlobSha(ev.content))
    ELSE Append(tree, Hash(ev.path, BlobSha(ev.content)))

\* the file the loop of publish is at
filename == filenames[idx]

PublishInit ==
    /\ pc = "login"
    /\ listing \in Listings(PubFiles, MaxPubListing)
    /\ args \in PubArgs
    /\ localContent \in ContentMaps
    /\ remote \in PubTrees
    /\ filenames = <<>>
    /\ idx = 0
    /\ path = EmptyStr
    /\ content = EmptyStr
    /\ sha = None
    /\ handleOpen = FALSE
    /\ log = <<>>
    /\ raised = NoError

\* a call raised at step pc: the with block, if entered, is left and the
\* exception goes where Propagate says
Raise(ev) ==
    /\ handleOpen' = WithExit(handleOpen)
    /\ log' = IF handleOpen /\ ~handleOpen'
              THEN log \o <<ev, Event("close", TRUE, ev.file)>>
              ELSE Append(log, ev)
    /\ raised' = Error(ev.op, ev.file)
    /\ pc' = Propagate(pc)
    /\ UNCHANGED <<listing, args, localContent, remote, filenames, idx,
                   path, content, sha>>

\* gh = github3.login(self._username, self._password)
Login ==
    /\ pc = "login"
    /\ UNCHANGED notPubVars
    /\ \E ok \in BOOLEAN :
          IF ok
          THEN /\ log' = Append(log, Event("login", TRUE, EmptyStr))
               /\ pc' = "repository"
               /\ UNCHANGED <<listing, args, localContent, remote, filenames,
                              idx, path, content, sha, handleOpen, raised>>
          ELSE Raise(Event("login", FALSE, EmptyStr))

\* repo = gh.repository("openelections", self.results_repo_name(state))
Repository ==
    /\ pc = "repository"
    /\ UNCHANGED notPubVars
    /\ \E ok \in BOOLEAN :
          IF ok
          THEN /\ log' = Append(log, Event("repository", TRUE, EmptyStr))
               /\ pc' = "get_filenames"
               /\ UNCHANGED <<listing, args, localContent, remote, filenames,
                              idx, path, content, sha, handleOpen, raised>>
          ELSE Raise(Event("repository", FALSE, EmptyStr))

\* self.get_filenames(state, datefilter, raw), and the loop's first step
GetFilenames ==
    /\ pc = "get_filenames"
    /\ UNCHANGED notPubVars
    /\ filenames' = get_filenames(args.state, args.datefilter, args.raw,
                                  results_dir, listing)
    /\ idx' = IF filenames' = <<>> THEN 0 ELSE 1
    /\ pc' = AfterFile(0, Len(filenames'))
    /\ UNCHANGED <<listing, args, localContent, remote, path, content, sha,
                   handleOpen, log, raised>>

\* pre_publish.send(self.__class__, filename=filename); path = get_path(...)
PrePublish ==
    /\ pc = "pre_publish"
    /\ UNCHANGED notPubVars
    /\ \E ok \in BOOLEAN :
          IF ok
          THEN /\ log' = Append(log, Event("pre_publish", TRUE, filename))
               /\ path' = get_path(filename)
               /\ pc' = "open"
               /\ UNCHANGED <<listing, args, localContent, remote, filenames,
                              idx, content, sha, handleOpen, raised>>
          ELSE Raise(Event("pre_publish", FALSE, filename))

\* with open(filename, 'r') as f:
Open ==
    /\ pc = "open"
    /\ UNCHANGED notPubVars
    /\ \E ok \in BOOLEAN :
          IF ok
          THEN /\ log' = Append(log, Event("open", TRUE, filename))
               /\ handleOpen' = TRUE
               /\ pc' = "read"
               /\ UNCHANGED <<listing, args, localContent, remote, filenames,
                              idx, path, content, sha, raised>>
          ELSE Raise(Event("open", FALSE, filename))

\* content = f.read()
Read ==
    /\ pc = "read"
    /\ UNCHANGED notPubVars
    /\ \E ok \in BOOLEAN :
          IF ok
          THEN /\ log' = Append(log, Event("read", TRUE, filename))
               /\ content' = localContent[Basename(filename)]
               /\ pc' = "get_sha"
               /\ UNCHANGED <<listing, args, localContent, remote, filenames,
                              idx, path, sha, handleOpen, raised>>
          ELSE Raise(Event("read", FALSE, filename))

\* sha = self.get_sha(repo, path, branch): repo.tree(branch).recurse(), then
\* the scan
GetSha ==
    /\ pc = "get_sha"
    /\ UNCHANGED notPubVars
    /\ \E ok \in BOOLEAN :
          IF ok
          THEN /\ log' = Append(log, [Event("tree", TRUE, filename) EXCEPT
                                         !.path = path, !.tree = remote])
               /\ sha' = get_sha(remote, path)
               /\ pc' = "write"
               /\ UNCHANGED <<listing, args, localContent, remote, filenames,
                              idx, path, content, handleOpen, raised>>
          ELSE Raise(Event("tree", FALSE, filename))

\* repo.update_file(path, msg, content, sha) or
\* repo.create_file(path, msg, content)
Write ==
    /\ pc = "write"
    /\ UNCHANGED notPubVars
    /\ \E ok \in BOOLEAN :
          LET ev == [WriteCall(filename, path, content, sha) EXCEPT !.ok = ok]
          IN IF ok
             THEN /\ log' = Append(log, ev)
                  /\ remote' = ApplyWrite(remote, ev)
                  /\ pc' = "close"
                  /\ UNCHANGED <<listing, args, localContent, filenames, idx,
                                 path, content, sha, handleOpen, raised>>
             ELSE Raise(ev)

\* the end of the with block
Close ==
    /\ pc = "close"
    /\ UNCHANGED notPubVars
    /\ log' = Append(log, Event("close", TRUE, filename))
    /\ handleOpen' = WithExit(handleOpen)
    /\ pc' = "post_publish"
    /\ UNCHANGED <<listing, args, localContent, remote, filenames, idx,
                   path, content, sha, raised>>

\* post_publish.send(self.__class__, filename=filename), and the loop's step
PostPublish ==
    /\ pc = "post_publish"
    /\ UNCHANGED notPubVars
    /\ \E ok \in BOOLEAN :
          IF ok
          THEN /\ log' = Append(log, Event("post_publish", TRUE, filename))
               /\ pc' = AfterFile(idx, Len(filenames))
               /\ idx' = IF idx < Len(filenames) THEN idx + 1 ELSE idx
               /\ UNCHANGED <<listing, args, localContent, remote, filenames,
                              path, content, sha, handleOpen, raised>>
          ELSE Raise(Event("post_publish", FALSE, filename))

\* repo.merge('gh-pages', 'master')
Merge ==
    /\ pc = "merge"
    /\ UNCHANGED notPubVars
    /\ \E ok \in BOOLEAN :
          LET ev == [Event("merge", ok, EmptyStr) EXCEPT
                        !.base = BranchGhPages, !.head = BranchMaster]
          IN IF ok
             THEN /\ log' = Append(log, ev)
                  /\ pc' = "done"
                  /\ UNCHANGED <<listing, args, localContent, remote,
                                 filenames, idx, path, content, sha,
                                 handleOpen, raised>>
             ELSE Raise(ev)

----------------------------------------------------------------------------
(* Specifications: one per operation, the others not called *)

GetPathIdle == gpFilename = EmptyStr /\ gpResult = EmptyStr /\ gpDone = FALSE

GetShaIdle == gsTree = <<>> /\ gsPath = EmptyStr /\ gsResult = None /\ gsDone = FALSE

GetFilenamesIdle ==
    /\ gfListing = <<>>
    /\ gfState = EmptyStr
    /\ gfDatefilter = None
    /\ gfRaw = FALSE
    /\ gfResult = <<>>
    /\ gfDone = FALSE

BasePublishIdle ==
    /\ bpArgs = [state |-> EmptyStr, datefilter |-> None, raw |-> FALSE]
    /\ bpRaised = "none"

\* no publish call of GitHubPublisher running, the remote tree being `tree`
PublishIdle(tree) ==
    /\ pc = "idle"
    /\ listing = <<>>
    /\ args = [state |-> EmptyStr, datefilter |-> None, raw |-> FALSE]
    /\ localContent = [n \in PubNames |-> Content1]
    /\ remote = tree
    /\ filenames = <<>>
    /\ idx = 0
    /\ path = EmptyStr
    /\ content = EmptyStr
    /\ sha = None
    /\ handleOpen = FALSE
    /\ log = <<>>
    /\ raised = NoError

\* GitHubPublisher.publish
Init ==
    /\ PublishInit
    /\ GetPathIdle /\ GetShaIdle /\ GetFilenamesIdle /\ BasePublishIdle

PublishStep ==
    \/ Login
    \/ Repository
    \/ GetFilenames
    \/ PrePublish
    \/ Open
    \/ Read
    \/ GetSha
    \/ Write
    \/ Close
    \/ PostPublish
    \/ Merge

Next == PublishStep

Spec == Init /\ [][Next]_vars

\* get_path
InitGetPath ==
    /\ GetPathInit
    /\ GetShaIdle /\ GetFilenamesIdle /\ BasePublishIdle /\ PublishIdle(<<>>)

SpecGetPath == InitGetPath /\ [][GetPathCall]_vars

\* get_sha
InitGetSha ==
    /\ GetShaInit
    /\ GetPathIdle /\ GetFilenamesIdle /\ BasePublishIdle /\ PublishIdle(<<>>)

SpecGetSha == InitGetSha /\ [][GetShaCall]_vars

\* ResultFileFinder.get_filenames
InitGetFilenames ==
    /\ GetFilenamesInit
    /\ GetPathIdle /\ GetShaIdle /\ BasePublishIdle /\ PublishIdle(<<>>)

SpecGetFilenames == InitGetFilenames /\ [][GetFilenamesCall]_vars

\* BasePublisher.publish, whatever the remote tree holds
InitBasePublish ==
    /\ BasePublishInit
    /\ GetPathIdle /\ GetShaIdle /\ GetFilenamesIdle
    /\ \E tree \in PubTrees : PublishIdle(tree)

SpecBasePublish == InitBasePublish /\ [][BasePublish]_vars

----------------------------------------------------------------------------
(* Properties of the operations called on their own *)

\* the elements of a sequence
Range(q) == {q[i] : i \in 1..Len(q)}

\* the last path segment of f: what follows f's last slash, all of f when it
\* has none
LastSegment(f) ==
    LET k == CHOOSE k \in 0..Len(f) :
                 /\ k = 0 \/ f[k] = "/"
                 /\ \A j \in (k + 1)..Len(f) : f[j] # "/"
    IN SubSeq(f, k + 1, Len(f))

\* a file name without its extension: the extension starts at the name's last
\* dot, and a name that has only dots before that dot has no extension
Stem(name) ==
    LET dots == {d \in 1..Len(name) :
                    /\ name[d] = "."
                    /\ \A j \in (d + 1)..Len(name) : name[j] # "."
                    /\ \E j \in 1..(d - 1) : name[j] # "."}
    IN IF dots = {} THEN name
       ELSE SubSeq(name, 1, (CHOOSE d \in dots : TRUE) - 1)

RawSlash == <<"r", "a", "w", "/">>
CleanSlash == <<"c", "l", "e", "a", "n", "/">>
RawMarker == <<"_", "_", "r", "a", "w">>

\* C8: get_path(f) is "raw/<last path segment of f>" when the last segment's
\* name without extension ends with "raw" and "clean/<last path segment>"
\* otherwise: it has exactly one of the two prefixes, and what follows the
\* prefix holds no slash, so nothing of f's directory.
C8_GetPathPrefix ==
    gpDone =>
        LET seg == LastSegment(gpFilename)
            isRaw == EndsWith(Stem(seg), RAW_PREFIX)
            prefix == IF isRaw THEN RawSlash ELSE CleanSlash
            rest == SubSeq(gpResult, Len(prefix) + 1, Len(gpResult))
        IN /\ gpResult = prefix \o seg
           /\ StartsWith(gpResult, RawSlash) # StartsWith(gpResult, CleanSlash)
           /\ \A i \in 1..Len(rest) : rest[i] # "/"

\* get_path has returned "raw/raw.a" for "/raw.a": a directory, a raw base
\* and an extension
C8_Witness ==
    /\ gpDone
    /\ gpFilename = <<"/", "r", "a", "w", ".", "a">>
    /\ gpResult = <<"r", "a", "w", "/", "r", "a", "w", ".", "a">>

\* C7: get_sha returns None when no entry of the tree has exactly the path
\* (the empty tree included), and otherwise the sha of the first entry in
\* tree order that has it, also when several entries share the path.
C7_GetShaFirstMatch ==
    gsDone =>
        LET hits == {i \in 1..Len(gsTree) : gsTree[i].path = gsPath}
        IN IF hits = {} THEN gsResult = None
           ELSE /\ gsResult # None
                /\ gsResult =
                       gsTree[CHOOSE i \in hits : \A j \in hits : i <= j].sha

\* get_sha has returned the first of two different shas entered at the path
C7_Witness ==
    /\ gsDone
    /\ \E i, j \in 1..Len(gsTree) :
          /\ i < j
          /\ gsTree[i].path = gsPath
          /\ gsTree[j].path = gsPath
          /\ gsTree[i].sha # gsTree[j].sha
          /\ \A k \in 1..(i - 1) : gsTree[k].path # gsPath
          /\ gsResult = gsTree[i].sha

\* the files of the listing that are results of the searched state in a
\* searched format
Searched == {r \in FileUniverse :
                /\ FileName(r) \in Range(gfListing)
                /\ r.state = gfState
                /\ r.ext \in Range(extensions)}

Found(r) == PathJoin(SearchDir, FileName(r)) \in Range(gfResult)

\* C5: with a datefilter that is a prefix of 1 to 8 digits of a date, a result
\* file of the state is returned exactly when its date begins with the
\* datefilter; with no datefilter every result file of the state is returned.
C5_DatefilterPrefix ==
    (gfDone /\ ~gfRaw) =>
        \A r \in Searched :
            Found(r) <=>
                (gfDatefilter = None \/ StartsWith(r.date, gfDatefilter))

\* the raw file that belongs to a cleaned file
RawOf(r) == [r EXCEPT !.rest = r.rest \o RawMarker]

C4_BasePublishNotImplemented ==
    bpRaised # "none" =>
        /\ bpRaised = "NotImplementedError"
        /\ log = <<>>

----------------------------------------------------------------------------
(* Properties of GitHubPublisher.publish *)

WriteOps == {"create_file", "update_file"}
FileSteps == {"pre_publish", "open", "read", "get_sha", "write", "close",
              "post_publish"}

\* the places of the log that hold a call of one of `ops` made for file f
Calls(ops, f) == {k \in 1..Len(log) : log[k].op \in ops /\ log[k].file = f}

\* the files get_filenames returns for the call's arguments
Located ==
    get_filenames(args.state, args.datefilter, args.raw, results_dir, listing)

\* the files whose create or update call returned
Written == {f \in Range(filenames) : \E k \in Calls(WriteOps, f) : log[k].ok}

\* the place of file f in the list publish walks
IndexOf(f) == CHOOSE i \in 1..Len(filenames) : filenames[i] = f

\* publish_file is running for file f
Publishing(f) == pc \in FileSteps /\ idx >= 1 /\ filenames[idx] = f

\* C1: the merge of master into gh-pages is issued at most once in a publish
\* call, only after publish_file returned for every file get_filenames
\* returned and no call before it raised; once a call before it has raised,
\* no merge is issued.
C1_MergeOnceAfterAllFiles ==
    LET merges == {k \in 1..Len(log) : log[k].op = "merge"}
    IN /\ Cardinality(merges) <= 1
       /\ \A m \in merges :
             /\ log[m].base = BranchGhPages /\ log[m].head = BranchMaster
             /\ \A k \in 1..(m - 1) : log[k].ok
             /\ \A f \in Range(Located) :
                   \E k \in 1..(m - 1) :
                       /\ log[k].op = "post_publish"
                       /\ log[k].file = f
                       /\ log[k].ok
       /\ (\E k \in 1..Len(log) : ~log[k].ok /\ log[k].op # "merge")
              => merges = {}

\* publish has returned after publishing two files and merging
C1_Witness ==
    /\ pc = "done"
    /\ Len(filenames) = 2
    /\ log[Len(log)].op = "merge"
    /\ Written = Range(filenames)

\* what the remote tree holds at a written file's path: the blob of the
\* file's content
Pushed(f) ==
    get_sha(remote, get_path(f)) = BlobSha(localContent[Basename(f)])

\* C2 as claimed: when publish_file raises on file fN, exactly f1..fN-1 have
\* had their write completed on the remote, nothing was attempted for
\* fN+1..fM, and the caller receives that error.
C2_ExactlyEarlierFilesWritten ==
    \A k \in 1..Len(log) :
        (~log[k].ok /\ log[k].file # EmptyStr) =>
            LET n == IndexOf(log[k].file)
            IN /\ Written = {filenames[i] : i \in 1..(n - 1)}
               /\ \A f \in Written : Pushed(f)
               /\ \A j \in 1..Len(log) :
                     log[j].file \notin
                         {filenames[i] : i \in (n + 1)..Len(filenames)}
               /\ pc = "raised"
               /\ raised = Error(log[k].op, log[k].file)

\* C2 as the code has it: when publish_file raises on file fN, the files
\* whose write completed on the remote are f1..fN-1, and fN too when the call
\* that raised is fN's post_publish notification (sent after the write);
\* nothing was attempted for fN+1..fM, and the caller receives that error.
C2_EarlierFilesWritten ==
    \A k \in 1..Len(log) :
        (~log[k].ok /\ log[k].file # EmptyStr) =>
            LET n == IndexOf(log[k].file)
            IN /\ Written =
                      {filenames[i] : i \in 1..(n - 1)}
                      \cup (IF log[k].op = "post_publish"
                            THEN {filenames[n]} ELSE {})
               /\ \A f \in Written : Pushed(f)
               /\ \A j \in 1..Len(log) :
                     log[j].file \notin
                         {filenames[i] : i \in (n + 1)..Len(filenames)}
               /\ pc = "raised"
               /\ raised = Error(log[k].op, log[k].file)

\* publish has raised on the second of two files, at its post_publish
C2_Witness ==
    /\ pc = "raised"
    /\ Len(filenames) = 2
    /\ idx = 2
    /\ raised = Error("post_publish", filenames[2])
    /\ Written = Range(filenames)

\* C3: after a sha lookup publish_file issues one remote write: an update-file
\* call with message "Update file <path>", the sha of the tree's first entry
\* at get_path(filename) and the file's content when the tree holds such an
\* entry, a create-file call with message "Create file <path>" and the
\* content otherwise; no file has two writes, none has a write without a
\* lookup, and a file whose publish_file returned has exactly one.
C3_OneWritePerFile ==
    /\ \A k \in 1..Len(log) :
          (log[k].op = "tree" /\ log[k].ok /\ k < Len(log)) =>
              LET f == log[k].file
                  p == get_path(f)
                  w == log[k + 1]
                  tree == log[k].tree
                  hits == {i \in 1..Len(tree) : tree[i].path = p}
              IN /\ w.file = f
                 /\ w.path = p
                 /\ w.content = localContent[Basename(f)]
                 /\ IF hits # {}
                    THEN /\ w.op = "update_file"
                         /\ w.msg = MsgUpdate \o p
                         /\ w.sha =
                                tree[CHOOSE i \in hits :
                                         \A j \in hits : i <= j].sha
                    ELSE /\ w.op = "create_file"
                         /\ w.msg = MsgCreate \o p
                         /\ w.sha = None
    /\ \A f \in Range(filenames) : Cardinality(Calls(WriteOps, f)) <= 1
    /\ \A k \in 1..Len(log) :
          log[k].op \in WriteOps =>
              /\ k > 1
              /\ log[k - 1].op = "tree"
              /\ log[k - 1].ok
              /\ log[k - 1].file = log[k].file
    /\ \A k \in 1..Len(log) :
          log[k].op = "post_publish" =>
              Cardinality(Calls(WriteOps, log[k].file)) = 1

\* publish has returned after updating one file and creating another
C3_Witness ==
    /\ pc = "done"
    /\ \E k \in 1..Len(log) : log[k].op = "update_file" /\ log[k].ok
    /\ \E k \in 1..Len(log) : log[k].op = "create_file" /\ log[k].ok

\* the place of a call in publish_file
Rank(op) ==
    CASE op = "pre_publish" -> 1
      [] op = "open" -> 2
      [] op = "read" -> 3
      [] op = "tree" -> 4
      [] op \in WriteOps -> 5
      [] op = "close" -> 6
      [] op = "post_publish" -> 7
      [] OTHER -> 0

\* C9: the calls of one publish_file come in the order pre_publish, open,
\* read, sha lookup, one write, post_publish, pre_publish being the first;
\* post_publish is sent once if the write returned, and not at all if the
\* read, the lookup or the write raised.
C9_NotificationOrder ==
    \A f \in Range(filenames) :
        LET mine == Calls({"pre_publish", "open", "read", "tree", "close",
                           "post_publish"} \cup WriteOps, f)
            posts == Calls({"post_publish"}, f)
        IN /\ \A k \in mine :
                 /\ \A j \in mine :
                       j < k => Rank(log[j].op) < Rank(log[k].op)
                 /\ Rank(log[k].op) > 1 =>
                       \E j \in mine :
                           j < k /\ log[j].op = "pre_publish" /\ log[j].ok
           /\ Cardinality(posts) <= 1
           /\ \A k \in posts :
                 \E j \in Calls(WriteOps, f) : j < k /\ log[j].ok
           /\ (\E k \in Calls({"read", "tree"} \cup WriteOps, f) : ~log[k].ok)
                 => posts = {}
           /\ (f \in Written /\ ~Publishing(f)) => Cardinality(posts) = 1

\* publish has raised at the write of the second of two files: post_publish
\* was sent for the first and not for the second
C9_Witness ==
    /\ pc = "raised"
    /\ Len(filenames) = 2
    /\ idx = 2
    /\ raised.op \in WriteOps
    /\ Calls({"post_publish"}, filenames[1]) # {}
    /\ Calls({"post_publish"}, filenames[2]) = {}

\* C10 as claimed: the file is closed right after the read, so it is not
\* open when the sha lookup or the write is issued, nor after publish_file.
C10_ClosedBeforeRemoteCalls ==
    /\ pc \in {"get_sha", "write"} => ~handleOpen
    /\ pc \notin {"read", "get_sha", "write", "close"} => ~handleOpen

\* C10 as the code has it: the file is open from the open to the end of the
\* with block, which holds the read, the sha lookup and the write, so each
\* of these calls is issued with the file open; the file is closed before
\* post_publish, and on every way out of publish_file, a failed read, lookup
\* or write included.
C10_OpenForWholeWithBlock ==
    /\ handleOpen <=> pc \in {"read", "get_sha", "write", "close"}
    /\ \A f \in Range(filenames) :
          LET opens == {k \in Calls({"open"}, f) : log[k].ok}
              closes == Calls({"close"}, f)
          IN /\ \A k \in Calls({"read", "tree"} \cup WriteOps, f) :
                   /\ \E o \in opens : o < k
                   /\ \A c \in closes : k < c
             /\ Cardinality(closes) <= Cardinality(opens)
             /\ ~Publishing(f) => Cardinality(closes) = Cardinality(opens)
             /\ \A k \in Calls({"post_publish"}, f) :
                   \E c \in closes : c < k

\* publish has raised at a write that was issued with the file open, and the
\* file is closed
C10_Witness ==
    /\ pc = "raised"
    /\ raised.op \in WriteOps
    /\ ~handleOpen
    /\ log[Len(log)].op = "close"
    /\ log[Len(log) - 1].op \in WriteOps
    /\ ~log[Len(log) - 1].ok

====
